---- MODULE Spec2Model ----
(***************************************************************************)
(* up2b: the credential store, the batch upload pipeline and the batch     *)
(* delete of up2b_lib/up2b_api/__init__.py (classes Base and GitBase).     *)
(*                                                                         *)
(* One command runs per process and the program is single-threaded, so     *)
(* each command is a specification of its own over the same variables:     *)
(*   SpecConfig  choose_image_bed and login (_save_auth_info) on the       *)
(*               configuration file;                                       *)
(*   SpecUpload  GitBase.upload_images on one batch;                       *)
(*   SpecDelete  GitBase.delete_images on one batch.                       *)
(* A dict is modelled as the set of its <<key, value>> pairs, a list as a  *)
(* sequence, None as a record with found = FALSE.                          *)
(***************************************************************************)
EXTENDS Integers, Sequences, FiniteSets, TLC

VARIABLES
    conf_file,      \* the JSON configuration file on disk
    last_save,      \* the last _save_auth_info call and how it ended
    pc,             \* the position of the running command
    auth_info,      \* self.auth_info, loaded by Base.__init__
    auto_compress,  \* self.auto_compress
    has_cdn,        \* whether the bed defines the cdn_url hook
    to_console,     \* upload_images' to_console argument
    images,         \* upload_images' *images argument
    idx,            \* the position of the running loop in its input
    image,          \* _upload's local `image`
    filename,       \* _compress_image's local `filename`, as [name, ext]
    fmt,            \* img.format inside _compress_image
    scale,          \* `scale` inside _compress_image, as <<numerator, denominator>>
    cache_exists,   \* whether CACHE_PATH exists
    cache,          \* the files under CACHE_PATH: a set of [name, ext, size]
    writes,         \* how many cache files this command has written
    now,            \* the wall clock, in milliseconds
    requests,       \* the HTTP requests issued so far, in order, with their answers
    image_urls,     \* upload_images' local `image_urls`
    stdout,         \* the lines printed so far
    error,          \* the exception that ended the command, "" if none
    info,           \* delete_images' `info` argument
    failed          \* delete_images' local `failed`

vars == <<conf_file, last_save, pc, auth_info, auto_compress, has_cdn, to_console,
          images, idx, image, filename, fmt, scale, cache_exists, cache, writes, now,
          requests, image_urls, stdout, error, info, failed>>

(***************************************************************************)
(* Bounds                                                                  *)
(***************************************************************************)
\* len(IMAGE_BEDS_CODE): the number of image beds this release knows.
NumBeds == 3

\* self.max_size: the bed's upload limit, in bytes.
max_size == 2

\* The largest image file, in bytes.
MaxRawSize == 3

\* The largest output of one encoder pass, in bytes.
MaxEncSize == 4

\* The most images of one batch.
MaxBatch == 2

\* The most milliseconds the clock advances between two readings.
MaxTick == 1

\* The most (sha, url) items of one delete batch.
MaxItems == 3

Codes == 0 .. (NumBeds - 1)

(***************************************************************************)
(* Values                                                                  *)
(***************************************************************************)
\* {} : the empty slot of auth_data.
EmptyDict == {}

Tokens == {"t1", "t2"}

\* GitBase.login's auth_info dict.
AuthInfoDict(token) ==
    {<<"token", token>>, <<"username", "u">>, <<"repo", "r">>, <<"folder", "up2b">>}

AuthInfos == {AuthInfoDict(t) : t \in Tokens}

Slots == {EmptyDict} \cup AuthInfos

SeqsUpTo(S, n) == UNION {[1 .. k -> S] : k \in 0 .. n}

None == [found |-> FALSE, value |-> EmptyDict]

Some(v) == [found |-> TRUE, value |-> v]

NoFile == [exists |-> FALSE, image_bed |-> 0, has_auth_data |-> FALSE, auth_data |-> <<>>]

\* The configuration files a process can find: none, one holding only "image_bed"
\* (choose_image_bed's first write), or one holding an "auth_data" list written by
\* a release that knew n <= NumBeds image beds.
ConfFiles ==
    {NoFile} \cup
    {[exists |-> TRUE, image_bed |-> b, has_auth_data |-> FALSE, auth_data |-> <<>>] :
        b \in Codes} \cup
    {[exists |-> TRUE, image_bed |-> b, has_auth_data |-> TRUE, auth_data |-> a] :
        b \in Codes, a \in SeqsUpTo(Slots, NumBeds) \ {<<>>}}

\* No image reference, and no file name, yet.
NoImage == [dir |-> "", name |-> "", ext |-> "", size |-> 0]

NoName == [name |-> "", ext |-> ""]

NoSave == [called |-> FALSE, existed |-> FALSE, code |-> 0, value |-> EmptyDict,
           outcome |-> "none"]

(***************************************************************************)
(* ConfigStore                                                             *)
(***************************************************************************)
\* Base._read_auth_info: conf["auth_data"][code], None on any exception (no file,
\* no "auth_data" key, index out of range). Python lists are 0-based.
_read_auth_info(file, code) ==
    IF file.exists /\ file.has_auth_data /\ code < Len(file.auth_data)
    THEN Some(file.auth_data[code + 1])
    ELSE None

\* [{}] * len(IMAGE_BEDS_CODE)
EmptySlots == [k \in 1 .. NumBeds |-> EmptyDict]

\* conf["auth_data"][code] = auth_info on a list: IndexError when code is out of
\* range, which only `except Exception` catches.
SetSlot(auth_data, code, value) ==
    IF code < Len(auth_data)
    THEN [ok |-> TRUE, auth_data |-> [auth_data EXCEPT ![code + 1] = value]]
    ELSE [ok |-> FALSE, auth_data |-> auth_data]

\* The try block of Base._save_auth_info on an existing file: the outcome and the
\* file's new content (unchanged when the block raises before f.write).
SaveAuthInfoResult(file, code, value) ==
    LET slots == IF file.has_auth_data THEN file.auth_data ELSE EmptySlots
        set == SetSlot(slots, code, value)
    IN IF set.ok
       THEN [outcome |-> "saved",
             file |-> [file EXCEPT !.has_auth_data = TRUE, !.auth_data = set.auth_data]]
       ELSE [outcome |-> "fatal", file |-> file]

IdleUpload ==
    /\ auto_compress = FALSE /\ has_cdn = FALSE /\ to_console = FALSE
    /\ images = <<>> /\ idx = 0 /\ image = NoImage /\ filename = NoName /\ fmt = "" /\ scale = <<0, 1>>
    /\ cache_exists = FALSE /\ cache = {} /\ writes = 0 /\ now = 0
    /\ requests = <<>> /\ image_urls = <<>> /\ stdout = <<>> /\ error = ""

IdleDelete == info = <<>> /\ failed = {}

UploadVars == <<auto_compress, has_cdn, to_console, images, idx, image, filename, fmt,
                scale, cache_exists, cache, writes, now, requests, image_urls, stdout, error>>

DeleteVars == <<info, failed>>

InitConfig ==
    /\ conf_file \in ConfFiles
    /\ last_save = NoSave
    /\ pc = "ready"
    /\ auth_info = None
    /\ IdleUpload
    /\ IdleDelete

\* choose_image_bed(image_bed_code, conf_file)
choose_image_bed(code) ==
    /\ pc = "ready"
    /\ conf_file' = IF conf_file.exists
                    THEN [conf_file EXCEPT !.image_bed = code]
                    ELSE [NoFile EXCEPT !.exists = TRUE, !.image_bed = code]
    /\ UNCHANGED <<last_save, pc, auth_info, UploadVars, DeleteVars>>

\* GitBase.login on the bed whose image_bed_code is `code`: Base._save_auth_info.
\* logger.fatal ends the process.
_save_auth_info(code, value) ==
    /\ pc = "ready"
    /\ LET r == IF conf_file.exists
                THEN SaveAuthInfoResult(conf_file, code, value)
                ELSE [outcome |-> "fatal", file |-> conf_file]
       IN /\ conf_file' = r.file
          /\ last_save' = [called |-> TRUE, existed |-> conf_file.exists, code |-> code,
                           value |-> value, outcome |-> r.outcome]
          /\ pc' = IF r.outcome = "saved" THEN "ready" ELSE "fatal"
    /\ UNCHANGED <<auth_info, UploadVars, DeleteVars>>

NextConfig ==
    \/ \E code \in Codes : choose_image_bed(code)
    \/ \E code \in Codes, value \in AuthInfos : _save_auth_info(code, value)

SpecConfig == InitConfig /\ [][NextConfig]_vars

\* C1: after any saveCredential(code, slot) on an existing config file, the save
\* has not failed and getCredential(code) returns a record equal to slot, whether
\* code is within or beyond the stored credentials sequence (a missing or shorter
\* sequence being extended with empty slots).
C1_SaveThenGetReturnsSlot ==
    (last_save.called /\ last_save.existed) =>
        /\ last_save.outcome = "saved"
        /\ _read_auth_info(conf_file, last_save.code) = Some(last_save.value)

(***************************************************************************)
(* SizeGuard                                                               *)
(***************************************************************************)
Exts == {"jpg", "png", "gif"}

Sizes == 1 .. MaxRawSize

\* An image reference: a path, with the size of the file behind it. An ImageStream
\* takes the same branches with len(stream) for the size and mime_type for the
\* extension. check_image_exists has passed: the files exist.
Images == [dir : {"in"}, name : {"img"}, ext : Exts, size : Sizes]

Batches == UNION {[1 .. k -> Images] : k \in 1 .. MaxBatch}

\* The formats Image.open can report for a file's content.
Formats == {"JPEG", "PNG", "GIF"}

\* str.lower() on a format name.
Lower(f) == CASE f = "JPEG" -> "jpeg" [] f = "PNG" -> "png" [] f = "GIF" -> "gif"
              [] OTHER -> f

\* The indices of the images larger than self.max_size.
Oversized(imgs) == {k \in 1 .. Len(imgs) : imgs[k].size > max_size}

Min(S) == CHOOSE m \in S : \A k \in S : m <= k

\* _exceed_max_size looking at its first argument only.
ExceedMaxSizeFirstOnly(imgs) ==
    IF imgs[1].size > max_size
    THEN [exceeded |-> TRUE, img |-> imgs[1]]
    ELSE [exceeded |-> FALSE, img |-> NoImage]

\* Base._exceed_max_size: (True, the first image over max_size) or (False, None).
_exceed_max_size(imgs) ==
    IF Oversized(imgs) /= {}
    THEN [exceeded |-> TRUE, img |-> imgs[Min(Oversized(imgs))]]
    ELSE [exceeded |-> FALSE, img |-> NoImage]

\* The mime types _check_images_valid lets through under auto_compress.
Compressible == {"jpg", "png", "jpeg"}

\* Base._check_images_valid: the exception it raises, "" when it returns.
_check_images_valid(imgs, auto) ==
    IF ~auto
    THEN IF _exceed_max_size(imgs).exceeded THEN "OverSizeError" ELSE ""
    ELSE IF \E k \in 1 .. Len(imgs) : imgs[k].ext \notin Compressible
         THEN "UnsupportedType"
         ELSE ""

(***************************************************************************)
(* UploadPipeline                                                          *)
(***************************************************************************)
\* check_login's test: `not self.auth_info` is true of None and of {}.
LoggedIn == auth_info.found /\ auth_info.value /= EmptyDict

StatusCodes == {201, 403}

\* The configuration files an upload or delete command starts from.
CommandConfFiles ==
    {NoFile,
     [exists |-> TRUE, image_bed |-> 0, has_auth_data |-> TRUE, auth_data |-> EmptySlots],
     [exists |-> TRUE, image_bed |-> 0, has_auth_data |-> TRUE,
      auth_data |-> [EmptySlots EXCEPT ![1] = AuthInfoDict("t1")]]}

\* Base.__init__ and the arguments of GitBase.upload_images. add_watermark keeps
\* its default, False, so _add_watermark returns its argument.
InitUpload ==
    /\ conf_file \in CommandConfFiles
    /\ auth_info = _read_auth_info(conf_file, 0)
    /\ last_save = NoSave
    /\ pc = "ready"
    /\ auto_compress \in BOOLEAN
    /\ has_cdn \in BOOLEAN
    /\ to_console \in BOOLEAN
    /\ images \in Batches
    /\ idx = 0 /\ image = NoImage /\ filename = NoName /\ fmt = "" /\ scale = <<0, 1>>
    /\ cache_exists \in BOOLEAN
    /\ cache = {} /\ writes = 0 /\ now = 0
    /\ requests = <<>> /\ image_urls = <<>> /\ stdout = <<>> /\ error = ""
    /\ IdleDelete

\* check_login when no credential is loaded: logger.fatal ends the process.
check_login_fatal ==
    /\ pc = "ready"
    /\ ~LoggedIn
    /\ pc' = "fatal"
    /\ UNCHANGED <<conf_file, last_save, auth_info, UploadVars, DeleteVars>>

\* upload_images up to its loop: check_login, then _check_images_valid.
upload_images_begin ==
    /\ pc = "ready"
    /\ LoggedIn
    /\ images /= <<>>
    /\ LET raised == _check_images_valid(images, auto_compress)
       IN IF raised /= ""
          THEN /\ pc' = "rejected"
               /\ error' = raised
               /\ UNCHANGED <<idx, image_urls>>
          ELSE /\ pc' = "loop"
               /\ idx' = 1
               /\ image_urls' = <<>>
               /\ UNCHANGED error
    /\ UNCHANGED <<conf_file, last_save, auth_info, auto_compress, has_cdn, to_console,
                   images, image, filename, fmt, scale, cache_exists, cache, writes, now,
                   requests, stdout, DeleteVars>>

\* The sizes img.save can leave in img_io.
EncSizes == 1 .. MaxEncSize

\* The size test off by one byte.
StillTooBigOffByOne(n) == n > max_size + 1

\* img_io.tell() > self.max_size
StillTooBig(n) == n > max_size

\* _upload's call of _compress_image, up to the first call of the inner compress:
\* an image within max_size is returned as it is; otherwise the file is opened,
\* its content's format decides the cache file's extension and scale is set.
_compress_image_begin ==
    /\ pc = "loop"
    /\ idx <= Len(images)
    /\ IF images[idx].size > max_size
       THEN \E f \in Formats :
               /\ fmt' = f
               /\ scale' = <<max_size, images[idx].size>>
               /\ filename' = [name |-> images[idx].name,
                               ext |-> IF f = "PNG" THEN "jpeg" ELSE Lower(f)]
               /\ image' = images[idx]
               /\ pc' = "compress"
       ELSE /\ image' = images[idx]
            /\ pc' = "request"
            /\ UNCHANGED <<fmt, scale, filename>>
    /\ UNCHANGED <<conf_file, last_save, auth_info, auto_compress, has_cdn, to_console,
                   images, idx, cache_exists, cache, writes, now, requests, image_urls,
                   stdout, error, DeleteVars>>

\* One call of the inner compress(img, scale). A format other than PNG and JPEG
\* raises UnsupportedType. Otherwise the image is re-encoded as JPEG to a size the
\* encoder decides; a result over max_size recurses with a new scale, and one
\* within it is written to CACHE_PATH (created when missing), whose path
\* _compress_image returns.
compress ==
    /\ pc = "compress"
    /\ IF fmt \notin {"PNG", "JPEG"}
       THEN /\ pc' = "raised"
            /\ error' = "UnsupportedType"
            /\ UNCHANGED <<image, fmt, scale, cache_exists, cache, writes>>
       ELSE \E n \in EncSizes :
               /\ fmt' = "JPEG"
               /\ IF StillTooBig(n)
                  THEN /\ scale' = <<max_size, n>>
                       /\ UNCHANGED <<pc, image, cache_exists, cache, writes>>
                  ELSE /\ cache_exists' = TRUE
                       /\ cache' = {c \in cache : c.name /= filename.name
                                                  \/ c.ext /= filename.ext}
                                   \cup {[name |-> filename.name, ext |-> filename.ext,
                                          size |-> n]}
                       /\ writes' = writes + 1
                       /\ image' = [dir |-> "cache", name |-> filename.name,
                                    ext |-> filename.ext, size |-> n]
                       /\ pc' = "request"
                       /\ UNCHANGED scale
               /\ UNCHANGED error
    /\ UNCHANGED <<conf_file, last_save, auth_info, auto_compress, has_cdn, to_console,
                   images, idx, filename, now, requests, image_urls, stdout, DeleteVars>>

\* The suffix of the remote object name: APNG is uploaded as PNG.
Suffix(img) == IF img.ext = "apng" THEN "png" ELSE img.ext

\* f"{int(time.time() * 1000)}{suffix}"
RemoteName(ms, img) == [ms |-> ms, suffix |-> Suffix(img)]

\* The bed's cdn_url hook: one more rewrite of the URL.
cdn_url(url) == [url EXCEPT !.rewrites = @ + 1]

\* resp.json()["content"]["download_url"] for the object created under `name`.
DownloadUrl(name) == [kind |-> "url", name |-> name, rewrites |-> 0]

\* UploadErrorResponse(resp.status_code, error, str(image))
UploadErrorResponse(status_code, message, img) ==
    [kind |-> "error", status_code |-> status_code, error |-> message, image |-> img]

\* resp.json()["message"] of an answer with this status.
Message(status_code) == <<"message", status_code>>

\* What _upload returns for an answer, lines 306 to 316.
UploadResult(status_code, name, img, cdn) ==
    IF status_code = 201
    THEN IF cdn THEN cdn_url(DownloadUrl(name)) ELSE DownloadUrl(name)
    ELSE UploadErrorResponse(status_code, Message(status_code), img)

\* The rest of _upload and the loop's append: the remote name is read off the
\* clock, the request is sent and the service answers with a status.
_upload ==
    /\ pc = "request"
    /\ \E tick \in 0 .. MaxTick, status_code \in StatusCodes :
          LET name == RemoteName(now + tick, image)
          IN /\ now' = now + tick
             /\ requests' = Append(requests, [name |-> name, status_code |-> status_code])
             /\ image_urls' = Append(image_urls,
                                     UploadResult(status_code, name, image, has_cdn))
    /\ idx' = idx + 1
    /\ pc' = "loop"
    /\ UNCHANGED <<conf_file, last_save, auth_info, auto_compress, has_cdn, to_console,
                   images, image, filename, fmt, scale, cache_exists, cache, writes,
                   stdout, error, DeleteVars>>

\* requests.request raising (no answer): the exception leaves upload_images.
_upload_raises ==
    /\ pc = "request"
    /\ \E tick \in 0 .. MaxTick :
          /\ now' = now + tick
          /\ requests' = Append(requests, [name |-> RemoteName(now + tick, image),
                                           status_code |-> 0])
    /\ pc' = "raised"
    /\ error' = "ConnectionError"
    /\ UNCHANGED <<conf_file, last_save, auth_info, auto_compress, has_cdn, to_console,
                   images, idx, image, filename, fmt, scale, cache_exists, cache, writes,
                   image_urls, stdout, DeleteVars>>

\* Lines 336 to 340: every str of image_urls goes through cdn_url.
RewriteAll(urls, cdn) ==
    [k \in 1 .. Len(urls) |->
        IF cdn /\ urls[k].kind = "url" THEN cdn_url(urls[k]) ELSE urls[k]]

\* Lines 342 to 344: print(i) for every i of image_urls.
Printed(urls, console) == IF console THEN urls ELSE <<>>

\* Base._clear_cache: the directory is removed and made again, if it exists.
_clear_cache(files, exists) == IF exists THEN {} ELSE files

\* upload_images after its loop: the cdn_url pass, the printing, _clear_cache.
upload_images_finish ==
    /\ pc = "loop"
    /\ idx > Len(images)
    /\ image_urls' = RewriteAll(image_urls, has_cdn)
    /\ stdout' = stdout \o Printed(image_urls', to_console)
    /\ cache' = _clear_cache(cache, cache_exists)
    /\ pc' = "done"
    /\ UNCHANGED <<conf_file, last_save, auth_info, auto_compress, has_cdn, to_console,
                   images, idx, image, filename, fmt, scale, cache_exists, writes, now,
                   requests, error, DeleteVars>>

NextUpload ==
    \/ check_login_fatal
    \/ upload_images_begin
    \/ _compress_image_begin
    \/ compress
    \/ _upload
    \/ _upload_raises
    \/ upload_images_finish

SpecUpload == InitUpload /\ [][NextUpload]_vars

(***************************************************************************)
(* Batch delete                                                            *)
(***************************************************************************)
Shas == {"sha1", "sha2"}

\* One (sha, url) item of `info`.
Items == {[sha |-> h, url |-> <<"url", h>>] : h \in Shas}

DeleteStatusCodes == {200, 403, 404}

\* ErrorResponse(resp.status_code, resp.json()["message"])
ErrorResponse(status_code, message) == [status_code |-> status_code, error |-> message]

\* d[key] = value on a dict.
DictSet(d, key, value) == {p \in d : p[1] /= key} \cup {<<key, value>>}

\* The failure filed under the item's own sha.
FailedKeyOwnSha(sha) == sha

\* The key delete_images files a failure under: the literal "sha", line 404.
FailedKey(sha) == "sha"

\* GitBase._delete_image's return value for an answer: None on 200.
_delete_image(status_code) ==
    IF status_code = 200
    THEN None
    ELSE Some(ErrorResponse(status_code, Message(status_code)))

InitDelete ==
    /\ conf_file \in CommandConfFiles
    /\ auth_info = _read_auth_info(conf_file, 0)
    /\ last_save = NoSave
    /\ pc = "ready"
    /\ IdleUpload
    /\ info \in SeqsUpTo(Items, MaxItems)
    /\ failed = {}

\* delete_images up to its loop: check_login, failed = {}.
delete_images_begin ==
    /\ pc = "ready"
    /\ LoggedIn
    /\ failed' = {}
    /\ idx' = 1
    /\ pc' = "delete"
    /\ UNCHANGED <<conf_file, last_save, auth_info, auto_compress, has_cdn, to_console,
                   images, image, filename, fmt, scale, cache_exists, cache, writes, now,
                   requests, image_urls, stdout, error, info>>

\* One turn of delete_images' loop: the delete request for the item, the
\* service's answer, and the entry of `failed` when the answer is not 200.
delete_image ==
    /\ pc = "delete"
    /\ idx <= Len(info)
    /\ \E status_code \in DeleteStatusCodes :
          LET result == _delete_image(status_code)
          IN /\ requests' = Append(requests, [sha |-> info[idx].sha, url |-> info[idx].url,
                                              status_code |-> status_code])
             /\ failed' = IF result.found
                          THEN DictSet(failed, FailedKey(info[idx].sha), result.value)
                          ELSE failed
    /\ idx' = idx + 1
    /\ UNCHANGED <<conf_file, last_save, pc, auth_info, auto_compress, has_cdn, to_console,
                   images, image, filename, fmt, scale, cache_exists, cache, writes, now,
                   image_urls, stdout, error, info>>

\* requests.delete raising (no answer): the exception leaves delete_images.
delete_image_raises ==
    /\ pc = "delete"
    /\ idx <= Len(info)
    /\ requests' = Append(requests, [sha |-> info[idx].sha, url |-> info[idx].url,
                                     status_code |-> 0])
    /\ pc' = "raised"
    /\ error' = "ConnectionError"
    /\ UNCHANGED <<conf_file, last_save, auth_info, auto_compress, has_cdn, to_console,
                   images, idx, image, filename, fmt, scale, cache_exists, cache, writes,
                   now, image_urls, stdout, DeleteVars>>

\* return failed
delete_images_return ==
    /\ pc = "delete"
    /\ idx > Len(info)
    /\ pc' = "done"
    /\ UNCHANGED <<conf_file, last_save, auth_info, UploadVars, DeleteVars>>

NextDelete ==
    \/ check_login_fatal
    \/ delete_images_begin
    \/ delete_image
    \/ delete_image_raises
    \/ delete_images_return

SpecDelete == InitDelete /\ [][NextDelete]_vars

(***************************************************************************)
(* Properties of upload_images (SpecUpload)                                *)
(***************************************************************************)
\* The images the stated policy refuses: over max_size, and, with
\* auto-compression enabled, also of a type outside jpg, jpeg, png.
Refused(imgs, auto) ==
    {k \in 1 .. Len(imgs) :
        /\ imgs[k].size > max_size
        /\ auto => imgs[k].ext \notin Compressible}

PolicyError(auto) == IF auto THEN "UnsupportedType" ELSE "OverSizeError"

\* upload_images has gone past _check_images_valid, one way or the other.
Validated == pc \in {"rejected", "loop", "compress", "request", "raised", "done"}

\* C2: with auto-compression enabled, validation fails with UnsupportedType
\* exactly when some image is both over maxBytes and of a type outside
\* jpg, jpeg, png; images within maxBytes pass whatever their type.
C2_UnsupportedOnlyWhenOversized ==
    (auto_compress /\ Validated) =>
        ((pc = "rejected" /\ error = "UnsupportedType") <=> Refused(images, TRUE) /= {})

\* C3: a batch with an image the policy refuses fails in validation with the
\* policy's error, and no request has been issued for any image of the batch.
C3_ValidateBeforeAnyRequest ==
    (LoggedIn /\ Refused(images, auto_compress) /= {}) =>
        /\ requests = <<>>
        /\ pc \in {"ready", "rejected"}
        /\ pc = "rejected" => error = PolicyError(auto_compress)

\* C3's case: the second image is oversized, the first is valid, the batch was
\* refused with OverSizeError and nothing was requested for the first.
C3_Witness ==
    /\ pc = "rejected"
    /\ error = "OverSizeError"
    /\ ~auto_compress
    /\ Len(images) = 2
    /\ images[1].size <= max_size
    /\ images[2].size > max_size
    /\ requests = <<>>

\* C4: when upload_images returns, image_urls holds one result per input image in
\* input order: the URL of the object created for image k if the service
\* answered 201, otherwise an UploadErrorResponse with the answer's status code
\* and message and image k's identifier.
C4_OneResultPerImage ==
    pc = "done" =>
        /\ Len(image_urls) = Len(images)
        /\ Len(requests) = Len(images)
        /\ \A k \in 1 .. Len(images) :
              IF requests[k].status_code = 201
              THEN image_urls[k].kind = "url" /\ image_urls[k].name = requests[k].name
              ELSE image_urls[k] = UploadErrorResponse(requests[k].status_code,
                                                       Message(requests[k].status_code),
                                                       images[k])

\* C5: however upload_images ends once it has started on the images (returning,
\* or leaving by an exception of compression or of the request), no cache entry
\* is left under the cache directory.
C5_CacheEmptyAtEnd ==
    pc \in {"done", "raised"} => cache = {}

\* The successful results of a sequence of results, in order.
IsUrl(r) == r.kind = "url"

\* C6: what upload_images prints is one line per successful upload, its URL, in
\* input order, and nothing when console output is disabled.
C6_PrintsOnlyUrls ==
    pc = "done" =>
        stdout = IF to_console THEN SelectSeq(image_urls, IsUrl) ELSE <<>>

\* C7: no two requests of a process are sent to the same remote object name.
C7_RemoteNamesUnique ==
    \A j, k \in 1 .. Len(requests) : j /= k => requests[j].name /= requests[k].name

\* C9: when _compress_image has returned, the returned reference is within
\* max_size; an input within max_size comes back as the same reference, an
\* oversized one as the cache file written with the returned size, and cache files
\* have been written for the oversized inputs only.
C9_CompressedWithinBudget ==
    pc = "request" =>
        /\ image.size <= max_size
        /\ images[idx].size <= max_size => image = images[idx]
        /\ images[idx].size > max_size =>
              /\ image.dir = "cache"
              /\ [name |-> image.name, ext |-> image.ext, size |-> image.size] \in cache
        /\ writes = Cardinality({k \in 1 .. idx : images[k].size > max_size})

\* C9's case: an oversized image came back from the shrink loop after a pass whose
\* output was still over max_size (scale was recomputed from that output).
C9_Witness ==
    /\ pc = "request"
    /\ images[idx].size > max_size
    /\ scale[2] /= images[idx].size
    /\ image.dir = "cache"
    /\ image.size <= max_size

\* C10: with the cdn_url hook defined, every URL upload_images returns has gone
\* through the hook exactly once.
C10_CdnAppliedOnce ==
    (has_cdn /\ pc = "done") =>
        \A k \in 1 .. Len(image_urls) : IsUrl(image_urls[k]) => image_urls[k].rewrites = 1

(***************************************************************************)
(* Properties of delete_images (SpecDelete)                                *)
(***************************************************************************)
\* The positions of `info` whose delete was answered with a status other than 200.
FailedItems == {k \in 1 .. Len(requests) : requests[k].status_code /= 200}

Max(S) == CHOOSE m \in S : \A k \in S : k <= m

\* C8: the delete requests are issued for the items of info in input order, and
\* when delete_images returns there is one for every item; its result is empty
\* exactly when every answer was 200, and otherwise holds one entry, under the key
\* "sha", the ErrorResponse of the last item that failed.
C8_DeleteKeepsLastFailure ==
    /\ pc \in {"delete", "done"} =>
          /\ Len(requests) <= Len(info)
          /\ \A k \in 1 .. Len(requests) :
                requests[k].sha = info[k].sha /\ requests[k].url = info[k].url
    /\ pc = "done" =>
          /\ Len(requests) = Len(info)
          /\ (failed = {}) <=> (FailedItems = {})
          /\ FailedItems /= {} =>
                LET last == requests[Max(FailedItems)].status_code
                IN failed = {<<"sha", ErrorResponse(last, Message(last))>>}

\* C8's case: three items with different shas at the ends, two failures with
\* different answers followed by a success, and only the second failure is kept.
C8_Witness ==
    /\ pc = "done"
    /\ Len(info) = 3
    /\ info[1].sha /= info[2].sha
    /\ requests[1].status_code = 404
    /\ requests[2].status_code = 403
    /\ requests[3].status_code = 200
    /\ failed = {<<"sha", ErrorResponse(403, Message(403))>>}

====
